---- MODULE Spec2Model ----
(***************************************************************************)
(* Model of src/src/app/page.tsx: the gear enhancement simulator.          *)
(*                                                                         *)
(* The file holds two near-duplicate EnhancementSimulator components: the  *)
(* "rich" one (lines 1-497, ENHANCE_COST = 5, tiered jelly / essence /     *)
(* diamond costs) and the "simple" one (lines 500-940, ENHANCE_COST = 75,  *)
(* damageRate statistic).  The variable `variant` says which of the two    *)
(* is running; it is chosen at construction and never changes.             *)
(*                                                                         *)
(* Numbers.  Probabilities are kept in hundredths (1.00 is 100, 0.45 is    *)
(* 45); a draw of Math.random() is kept as the hundredth it falls in       *)
(* (0..99), so that `Math.random() < rate` is `draw < ratePct`, which is   *)
(* exact since every rate of the table is a whole number of hundredths.    *)
(* A quotient such as successRate is kept as the reduced fraction          *)
(* <<numerator, denominator>>.                                             *)
(*                                                                         *)
(* React.  A state setter (setCurrentLevel, setAttempts, ...) takes effect *)
(* within the action that calls it: rendering is not a step of its own.    *)
(* An update made by a click handler is rendered synchronously and its     *)
(* passive effects (the useEffect of lines 81-83 that copies currentLevel  *)
(* into currentLevelRef) run before the event ends.  An update made by the *)
(* setInterval callback is rendered later and its passive effect is        *)
(* deferred: it is the separate step SyncLevelRef, which may or may not    *)
(* run before the next timer tick.                                         *)
(***************************************************************************)
EXTENDS Integers, Sequences, FiniteSets, TLC

VARIABLES
    variant,              \* "rich" (lines 1-497) or "simple" (lines 500-940)
    currentLevel,         \* useState(1), line 60
    attempts,             \* useState([]), line 61: the attempt log
    targetLevel,          \* useState(15), line 62
    isAutoEnhancing,      \* useState(false), line 63
    autoEnhanceInterval,  \* useRef(null), line 64: <<>> is null, <<t>> is an
                          \* interval whose callback captured targetLevel = t
    currentLevelRef,      \* useRef(currentLevel), line 65
    stats,                \* useState({...}), lines 66-74
    lastOp,               \* history: the handler that ran last and the levels
                          \* it handed to enhance
    call                  \* a single call of a pure function (enhance,
                          \* calculateReachTargetChance, calculateStats):
                          \* its arguments and its result

vars == <<variant, currentLevel, attempts, targetLevel, isAutoEnhancing,
          autoEnhanceInterval, currentLevelRef, stats, lastOp, call>>

sessionVars == <<currentLevel, attempts, targetLevel, isAutoEnhancing,
                 autoEnhanceInterval, currentLevelRef, stats, lastOp>>

(***************************************************************************)
(* Bounds of the model.                                                    *)
(***************************************************************************)
\* longest attempt log a session may build
MaxLog == 2
\* largest value typed into the "Run Attempts" field
MaxAttemptsInput == 3
\* levels handed to a single call of enhance or of
\* calculateReachTargetChance range over -LevelMargin .. 15 + LevelMargin
LevelMargin == 2
\* longest log handed to a single call of calculateStats
MaxStatsLog == 2

(***************************************************************************)
(* Arithmetic helpers: Math.min, Math.max, exact quotients.                *)
(***************************************************************************)
Min(a, b) == IF a < b THEN a ELSE b

Max(a, b) == IF a > b THEN a ELSE b

RECURSIVE GCD(_, _)
GCD(a, b) == IF b = 0 THEN a ELSE GCD(b, a % b)

\* the quotient n / d (d > 0) as a reduced fraction
Quotient(n, d) == LET g == GCD(n, d) IN <<n \div g, d \div g>>

\* the number 0 as stored in a statistics field that otherwise holds a quotient
Zero == <<0, 1>>

(***************************************************************************)
(* ENHANCEMENT_RULES, lines 28-44 (and 525-541): one rule per level 1..15. *)
(***************************************************************************)
\* a table whose level-6 rate was mistyped
successRatePct_level6 == <<100, 100, 100, 100, 100, 95, 45, 40, 35, 30, 25, 20, 15, 5, 1>>

successRatePct == <<100, 100, 100, 100, 100, 100, 45, 40, 35, 30, 25, 20, 15, 5, 1>>

damageRatePct == <<0, 0, 0, 0, 0, 0, 25, 25, 25, 25, 25, 25, 25, 25, 25>>

\* a table whose level-9 failure costs a level
failurePenalty_level9 == <<0, 0, 0, 0, 0, 0, -1, -2, -1, -1, -2, -2, -2, -2, -2>>

failurePenalty == <<0, 0, 0, 0, 0, 0, -1, -2, 0, -1, -2, -2, -2, -2, -2>>

ENHANCEMENT_RULES ==
    [l \in 1..15 |-> [successRate    |-> successRatePct[l],
                      damageRate     |-> damageRatePct[l],
                      failurePenalty |-> failurePenalty[l]]]

\* a rule lookup that misses the last level
HasRule_upTo14(level) == level \in 1..14

\* `ENHANCEMENT_RULES[level]` is defined (the test `!rules` of line 91 fails)
HasRule(level) == level \in DOMAIN ENHANCEMENT_RULES

\* ENHANCE_COST, line 46 (rich) and line 543 (simple)
ENHANCE_COST == IF variant = "rich" THEN 5 ELSE 75

Variants == {"rich", "simple"}

(***************************************************************************)
(* calculateReachTargetChance, lines 48-57 (and 545-554).  The chance is a *)
(* product of rates written in hundredths, so it is a decimal number: the  *)
(* pair <<m, e>> stands for m / 10^e, with m not divisible by 10 unless    *)
(* e = 0.  The product is kept exact; the rounding of the floating-point   *)
(* multiplication is not modelled.                                         *)
(***************************************************************************)
\* the decimal number m / 10^e in its shortest form
RECURSIVE Decimal(_, _)
Decimal(m, e) ==
    IF m = 0 THEN <<0, 0>>
    ELSE IF e > 0 /\ m % 10 = 0 THEN Decimal(m \div 10, e - 1)
    ELSE <<m, e>>

\* `return 1` of line 49 and `let chance = 1` of line 50
One == Decimal(1, 0)

\* `return 0` of line 53
NoChance == Decimal(0, 0)

\* `chance *= rules.successRate`, line 54: the rate is pct hundredths
TimesRate(chance, pct) == Decimal(chance[1] * pct, chance[2] + 2)

\* a loop that also multiplies in the rate of the target level
RECURSIVE ChanceLoop_inclusive(_, _, _)
ChanceLoop_inclusive(lvl, target, chance) ==
    IF ~(lvl <= target) THEN chance
    ELSE IF lvl \notin DOMAIN ENHANCEMENT_RULES THEN NoChance
    ELSE ChanceLoop_inclusive(lvl + 1, target,
                              TimesRate(chance, ENHANCEMENT_RULES[lvl].successRate))

\* a loop that passes over a level without a rule instead of returning 0
RECURSIVE ChanceLoop_skipsMissing(_, _, _)
ChanceLoop_skipsMissing(lvl, target, chance) ==
    IF ~(lvl < target) THEN chance
    ELSE IF lvl \notin DOMAIN ENHANCEMENT_RULES
    THEN ChanceLoop_skipsMissing(lvl + 1, target, chance)
    ELSE ChanceLoop_skipsMissing(lvl + 1, target,
                                 TimesRate(chance, ENHANCEMENT_RULES[lvl].successRate))

\* the for loop of lines 51-55 from level lvl on, chance being the product so far
RECURSIVE ChanceLoop(_, _, _)
ChanceLoop(lvl, target, chance) ==
    IF ~(lvl < target) THEN chance
    ELSE IF lvl \notin DOMAIN ENHANCEMENT_RULES THEN NoChance
    ELSE ChanceLoop(lvl + 1, target,
                    TimesRate(chance, ENHANCEMENT_RULES[lvl].successRate))

\* a function that takes a target already reached for an impossible one
calculateReachTargetChance_zeroWhenPast(current, target) ==
    IF target <= current THEN NoChance
    ELSE ChanceLoop(current, target, One)

calculateReachTargetChance(current, target) ==
    IF target <= current THEN One
    ELSE ChanceLoop(current, target, One)

(***************************************************************************)
(* enhance, lines 89-105 (and 583-599).  rSuccess and rDamage are the two  *)
(* draws of Math.random(), in hundredths.                                  *)
(***************************************************************************)
\* the outcome of `throw new Error('Invalid enhancement level: ...')`, line 92
InvalidLevel == [error |-> "Invalid enhancement level"]

Threw(result) == "error" \in DOMAIN result

\* an enhance whose failure always costs one level, whatever the rule says
enhance_flatPenalty(level, rSuccess, rDamage) ==
    IF level \notin DOMAIN ENHANCEMENT_RULES
    THEN InvalidLevel
    ELSE LET rules == ENHANCEMENT_RULES[level]
             success == rSuccess < rules.successRate
             damageOccurred == rDamage < rules.damageRate
             newLevel == IF success THEN level + 1 ELSE Max(1, level - 1)
         IN [success        |-> success,
             newLevel       |-> newLevel,
             damageOccurred |-> damageOccurred,
             goldSpent      |-> ENHANCE_COST]

enhance(level, rSuccess, rDamage) ==
    IF ~HasRule(level)
    THEN InvalidLevel
    ELSE LET rules == ENHANCEMENT_RULES[level]
             success == rSuccess < rules.successRate
             damageOccurred == rDamage < rules.damageRate
             newLevel == IF success THEN level + 1
                         ELSE Max(1, level + rules.failurePenalty)
         IN [success        |-> success,
             newLevel       |-> newLevel,
             damageOccurred |-> damageOccurred,
             goldSpent      |-> ENHANCE_COST]

(***************************************************************************)
(* calculateStats, lines 107-170 (rich) and 601-624 (simple).              *)
(***************************************************************************)
\* the sum of a sequence of numbers: Array.prototype.reduce((sum, x) => sum + x, 0)
RECURSIVE Sum(_)
Sum(s) == IF s = <<>> THEN 0 ELSE Head(s) + Sum(Tail(s))

\* lines 128-133
jellyPerAttempt(level) ==
    IF level <= 3 THEN 18
    ELSE IF level <= 6 THEN 18
    ELSE IF level <= 10 THEN 18
    ELSE IF level <= 13 THEN 18
    ELSE IF level <= 14 THEN 18 ELSE 24

\* essence tiers whose upper limits are exclusive
essencePerAttempt_exclusive(level) ==
    IF level < 3 THEN 1
    ELSE IF level < 6 THEN 2
    ELSE IF level < 10 THEN 3
    ELSE IF level < 13 THEN 4
    ELSE IF level < 14 THEN 5 ELSE 6

\* lines 140-145
essencePerAttempt(level) ==
    IF level <= 3 THEN 1
    ELSE IF level <= 6 THEN 2
    ELSE IF level <= 10 THEN 3
    ELSE IF level <= 13 THEN 4
    ELSE IF level <= 14 THEN 5 ELSE 6

\* lines 152-157
diamondPerAttempt(level) ==
    IF level <= 3 THEN 1
    ELSE IF level <= 6 THEN 2
    ELSE IF level <= 10 THEN 2
    ELSE IF level <= 13 THEN 3
    ELSE IF level <= 14 THEN 4 ELSE 6

\* the all-zero statistics literal: it is written three times in each
\* component (initial state, calculateStats of the empty log, handleReset)
ZeroStats ==
    IF variant = "rich"
    THEN [totalAttempts |-> 0, totalGoldSpent |-> 0, successRate |-> Zero,
          jellyCost |-> 0, essenceCost |-> 0, diamondCost |-> 0, finalLevel |-> 1]
    ELSE [totalAttempts |-> 0, totalGoldSpent |-> 0, successRate |-> Zero,
          damageRate |-> Zero, finalLevel |-> 1]

\* useState<EnhancementStats>({...}), lines 66-74 and 563-569
InitialStats == ZeroStats

\* an empty-log literal whose finalLevel was left at 0
EmptyLogStats_finalLevel0 == [ZeroStats EXCEPT !.finalLevel = 0]

\* the literal returned for the empty log, lines 108-118 and 602-610
EmptyLogStats == ZeroStats

\* a reset literal whose finalLevel was left at 0
ResetStats_finalLevel0 == [ZeroStats EXCEPT !.finalLevel = 0]

\* the literal handleReset stores, lines 236-244 and 690-696
ResetStats == ZeroStats

\* The statistics of a non-empty log with three of the fields given; the
\* faulty variants of calculateStats below differ in one of them.
StatsWith(log, successfulAttempts, totalGoldSpent, finalLevel) ==
    LET totalAttempts == Len(log)
        IsDamage(a) == a.damageOccurred
        damageOccurred == Len(SelectSeq(log, IsDamage))
    IN IF variant = "rich"
       THEN [totalAttempts  |-> totalAttempts,
             totalGoldSpent |-> totalGoldSpent,
             successRate    |-> Quotient(successfulAttempts, totalAttempts),
             jellyCost      |-> Sum([i \in 1..Len(log) |-> jellyPerAttempt(log[i].newLevel)]),
             essenceCost    |-> Sum([i \in 1..Len(log) |-> essencePerAttempt(log[i].newLevel)]),
             diamondCost    |-> Sum([i \in 1..Len(log) |-> diamondPerAttempt(log[i].newLevel)]),
             finalLevel     |-> finalLevel]
       ELSE [totalAttempts  |-> totalAttempts,
             totalGoldSpent |-> totalGoldSpent,
             successRate    |-> Quotient(successfulAttempts, totalAttempts),
             damageRate     |-> Quotient(damageOccurred, totalAttempts),
             finalLevel     |-> finalLevel]

\* a calculateStats whose filter keeps the failed attempts
calculateStats_countsFailures(log) ==
    IF Len(log) = 0 THEN EmptyLogStats
    ELSE LET IsFailure(a) == ~a.success
         IN StatsWith(log, Len(SelectSeq(log, IsFailure)),
                      Len(log) * ENHANCE_COST, log[Len(log)].newLevel)

\* a calculateStats that reads finalLevel from the first entry
calculateStats_firstLevel(log) ==
    IF Len(log) = 0 THEN EmptyLogStats
    ELSE LET IsSuccess(a) == a.success
         IN StatsWith(log, Len(SelectSeq(log, IsSuccess)),
                      Len(log) * ENHANCE_COST, log[1].newLevel)

\* a calculateStats that charges only the successful attempts
calculateStats_goldOnSuccess(log) ==
    IF Len(log) = 0 THEN EmptyLogStats
    ELSE LET IsSuccess(a) == a.success
         IN StatsWith(log, Len(SelectSeq(log, IsSuccess)),
                      Len(SelectSeq(log, IsSuccess)) * ENHANCE_COST,
                      log[Len(log)].newLevel)

\* a calculateStats whose gold reduce overwrites the sum instead of adding to it
calculateStats_lastCostOnly(log) ==
    IF Len(log) = 0 THEN EmptyLogStats
    ELSE LET IsSuccess(a) == a.success
         IN StatsWith(log, Len(SelectSeq(log, IsSuccess)),
                      ENHANCE_COST, log[Len(log)].newLevel)

calculateStats(log) ==
    IF Len(log) = 0 THEN EmptyLogStats
    ELSE LET totalAttempts == Len(log)
             IsSuccess(a) == a.success
             IsDamage(a) == a.damageOccurred
             successfulAttempts == Len(SelectSeq(log, IsSuccess))
             damageOccurred == Len(SelectSeq(log, IsDamage))
             PerEntry(amount(_)) == [i \in 1..Len(log) |-> amount(log[i])]
             Cost(a) == ENHANCE_COST
             Gold(a) == a.goldSpent
             Jelly(a) == jellyPerAttempt(a.newLevel)
             Essence(a) == essencePerAttempt(a.newLevel)
             Diamond(a) == diamondPerAttempt(a.newLevel)
         IN IF variant = "rich"
            THEN [totalAttempts  |-> totalAttempts,
                  totalGoldSpent |-> Sum(PerEntry(Cost)),
                  successRate    |-> Quotient(successfulAttempts, totalAttempts),
                  jellyCost      |-> Sum(PerEntry(Jelly)),
                  essenceCost    |-> Sum(PerEntry(Essence)),
                  diamondCost    |-> Sum(PerEntry(Diamond)),
                  finalLevel     |-> log[Len(log)].newLevel]
            ELSE [totalAttempts  |-> totalAttempts,
                  totalGoldSpent |-> Sum(PerEntry(Gold)),
                  successRate    |-> Quotient(successfulAttempts, totalAttempts),
                  damageRate     |-> Quotient(damageOccurred, totalAttempts),
                  finalLevel     |-> log[Len(log)].newLevel]

(***************************************************************************)
(* Inputs.  The number fields clamp what is typed (onChange, lines 373,    *)
(* 421, 444); `parseInt(v) || 1` turns 0 (and NaN) into 1.                 *)
(***************************************************************************)
\* parseInt(e.target.value) || 1
ParsedOr1(raw) == IF raw = 0 THEN 1 ELSE raw

\* Math.min(15, Math.max(1, parseInt(e.target.value) || 1)), lines 373 and 421
ClampLevelInput(raw) == Min(15, Max(1, ParsedOr1(raw)))

\* Math.max(1, parseInt(e.target.value) || 1), line 444
ClampAttemptsInput(raw) == Max(1, ParsedOr1(raw))

\* what is typed into the "Target Level" field
TargetLevelTyped == {0, 8, 9, 16}

\* what is typed into the "Set Level" field
SetLevelTyped == {-1, 7, 14, 16}

\* what is typed into the "Run Attempts" field
AttemptsTyped == 0..MaxAttemptsInput

\* draws of Math.random() (hundredths) in a session: 0 is below every
\* positive rate, 99 is below no rate but 1.00
Draws == {0, 99}

\* draws of Math.random() (hundredths) for a single call of enhance
AllDraws == 0..99

\* the levels a single call of enhance is given
LevelArgs == (0 - LevelMargin)..(15 + LevelMargin)

(***************************************************************************)
(* Initial state: EnhancementSimulator, lines 60-77 (and 557-572).         *)
(***************************************************************************)
\* history record: the handler that ran, the levels it handed to enhance (in
\* order), the number of attempts it was asked for, and the number of log
\* entries it discarded
Did(name, levels, max) ==
    [name |-> name, levels |-> levels, max |-> max, cleared |-> 0]

NoOp == Did("init", <<>>, 0)

NoCall == [level |-> 0, rSuccess |-> 0, rDamage |-> 0, done |-> FALSE,
           result |-> [pending |-> TRUE]]

InitSession ==
    /\ currentLevel = 1
    /\ attempts = <<>>
    /\ targetLevel = 15
    /\ isAutoEnhancing = FALSE
    /\ autoEnhanceInterval = <<>>
    /\ currentLevelRef = currentLevel
    /\ stats = InitialStats
    /\ lastOp = NoOp

Init ==
    /\ variant \in Variants
    /\ InitSession
    /\ call = NoCall

(***************************************************************************)
(* handleEnhance, lines 172-189 (and 626-643).  It reads the level from    *)
(* currentLevelRef; the caller says what becomes of currentLevelRef.       *)
(***************************************************************************)
handleEnhance(rSuccess, rDamage, who) ==
    IF currentLevelRef >= 15
    THEN /\ autoEnhanceInterval' = <<>>
         /\ isAutoEnhancing' = FALSE
         /\ lastOp' = Did(who, <<>>, 1)
         /\ UNCHANGED <<currentLevel, attempts, stats>>
    ELSE LET result == enhance(currentLevelRef, rSuccess, rDamage)
             newAttempts == Append(attempts, result)
         IN IF Threw(result)
            THEN /\ lastOp' = Did(who, <<currentLevelRef>>, 1)
                 /\ UNCHANGED <<currentLevel, attempts, stats, isAutoEnhancing,
                                autoEnhanceInterval>>
            ELSE /\ attempts' = newAttempts
                 /\ stats' = calculateStats(newAttempts)
                 /\ currentLevel' = result.newLevel
                 /\ lastOp' = Did(who, <<currentLevelRef>>, 1)
                 /\ UNCHANGED <<isAutoEnhancing, autoEnhanceInterval>>

\* an Enhance button that stays enabled while auto-enhance runs
ClickEnhance_whileAuto ==
    /\ ~(currentLevel >= 15)
    /\ Len(attempts) < MaxLog
    /\ \E rSuccess \in Draws, rDamage \in Draws :
          handleEnhance(rSuccess, rDamage, "enhance")
    /\ currentLevelRef' = currentLevel'
    /\ UNCHANGED <<variant, targetLevel, call>>

\* an Enhance button that is also disabled once the target is reached
ClickEnhance_belowTarget ==
    /\ ~(currentLevel >= 15 \/ currentLevel >= targetLevel \/ isAutoEnhancing)
    /\ Len(attempts) < MaxLog
    /\ \E rSuccess \in Draws, rDamage \in Draws :
          handleEnhance(rSuccess, rDamage, "enhance")
    /\ currentLevelRef' = currentLevel'
    /\ UNCHANGED <<variant, targetLevel, call>>

\* the Enhance button, lines 381-387: disabled={currentLevel >= 15 || isAutoEnhancing}
ClickEnhance ==
    /\ ~(currentLevel >= 15 \/ isAutoEnhancing)
    /\ Len(attempts) < MaxLog
    /\ \E rSuccess \in Draws, rDamage \in Draws :
          handleEnhance(rSuccess, rDamage, "enhance")
    /\ currentLevelRef' = currentLevel'
    /\ UNCHANGED <<variant, targetLevel, call>>

(***************************************************************************)
(* handleAutoEnhance, lines 191-225 (and 645-679), behind the Auto / Stop  *)
(* button, lines 388-398: disabled={currentLevel >= targetLevel ||         *)
(* currentLevel >= 15}.                                                     *)
(***************************************************************************)
\* a stop that forgets clearInterval
handleAutoEnhance_keepsTimer ==
    IF isAutoEnhancing
    THEN /\ autoEnhanceInterval' = autoEnhanceInterval
         /\ isAutoEnhancing' = FALSE
         /\ lastOp' = Did("stop", <<>>, 0)
    ELSE IF targetLevel <= currentLevelRef
         THEN /\ lastOp' = Did("alert", <<>>, 0)
              /\ UNCHANGED <<isAutoEnhancing, autoEnhanceInterval>>
         ELSE IF targetLevel > 15
         THEN /\ lastOp' = Did("alert", <<>>, 0)
              /\ UNCHANGED <<isAutoEnhancing, autoEnhanceInterval>>
         ELSE /\ isAutoEnhancing' = TRUE
              /\ autoEnhanceInterval' = <<targetLevel>>
              /\ lastOp' = Did("start", <<>>, 0)

handleAutoEnhance ==
    IF isAutoEnhancing
    THEN /\ autoEnhanceInterval' = <<>>
         /\ isAutoEnhancing' = FALSE
         /\ lastOp' = Did("stop", <<>>, 0)
    ELSE IF targetLevel <= currentLevelRef
         THEN /\ lastOp' = Did("alert", <<>>, 0)
              /\ UNCHANGED <<isAutoEnhancing, autoEnhanceInterval>>
         ELSE IF targetLevel > 15
         THEN /\ lastOp' = Did("alert", <<>>, 0)
              /\ UNCHANGED <<isAutoEnhancing, autoEnhanceInterval>>
         ELSE /\ isAutoEnhancing' = TRUE
              /\ autoEnhanceInterval' = <<targetLevel>>
              /\ lastOp' = Did("start", <<>>, 0)

ClickAuto ==
    /\ ~(currentLevel >= targetLevel \/ currentLevel >= 15)
    /\ handleAutoEnhance
    /\ currentLevelRef' = currentLevel
    /\ UNCHANGED <<variant, currentLevel, attempts, targetLevel, stats, call>>

(***************************************************************************)
(* The setInterval callback, lines 213-224 (and 667-678).  It uses the     *)
(* targetLevel captured when the interval was created.                     *)
(***************************************************************************)
\* a callback whose stop branch forgets setIsAutoEnhancing(false)
TimerTick_keepsFlag ==
    /\ autoEnhanceInterval # <<>>
    /\ Len(attempts) < MaxLog
    /\ LET target == autoEnhanceInterval[1]
       IN IF currentLevelRef >= target \/ currentLevelRef >= 15
          THEN /\ autoEnhanceInterval' = <<>>
               /\ isAutoEnhancing' = isAutoEnhancing
               /\ lastOp' = Did("tick", <<>>, 0)
               /\ UNCHANGED <<currentLevel, attempts, stats>>
          ELSE \E rSuccess \in Draws, rDamage \in Draws :
                  handleEnhance(rSuccess, rDamage, "tick")
    /\ UNCHANGED <<variant, targetLevel, currentLevelRef, call>>

TimerTick ==
    /\ autoEnhanceInterval # <<>>
    /\ Len(attempts) < MaxLog
    /\ LET target == autoEnhanceInterval[1]
       IN IF currentLevelRef >= target \/ currentLevelRef >= 15
          THEN /\ autoEnhanceInterval' = <<>>
               /\ isAutoEnhancing' = FALSE
               /\ lastOp' = Did("tick", <<>>, 0)
               /\ UNCHANGED <<currentLevel, attempts, stats>>
          ELSE \E rSuccess \in Draws, rDamage \in Draws :
                  handleEnhance(rSuccess, rDamage, "tick")
    /\ UNCHANGED <<variant, targetLevel, currentLevelRef, call>>

\* useEffect(() => { currentLevelRef.current = currentLevel }, [currentLevel]),
\* lines 81-83 (and 575-577), after a render that the timer callback caused
SyncLevelRef ==
    /\ currentLevelRef # currentLevel
    /\ currentLevelRef' = currentLevel
    /\ lastOp' = Did("effect", <<>>, 0)
    /\ UNCHANGED <<variant, currentLevel, attempts, targetLevel, isAutoEnhancing,
                   autoEnhanceInterval, stats, call>>

(***************************************************************************)
(* handleReset, lines 227-245 (and 681-697), behind the Reset button,      *)
(* lines 399-405: disabled={isAutoEnhancing}.                              *)
(***************************************************************************)
\* a reset that forgets setAttempts([])
handleReset_keepsLog ==
    /\ autoEnhanceInterval' = <<>>
    /\ isAutoEnhancing' = FALSE
    /\ currentLevel' = 1
    /\ currentLevelRef' = 1
    /\ attempts' = attempts
    /\ stats' = ResetStats
    /\ lastOp' = [Did("reset", <<>>, 0) EXCEPT !.cleared = Len(attempts)]

\* a reset that forgets setCurrentLevel(1)
handleReset_keepsLevel ==
    /\ autoEnhanceInterval' = <<>>
    /\ isAutoEnhancing' = FALSE
    /\ currentLevel' = currentLevel
    /\ currentLevelRef' = 1
    /\ attempts' = <<>>
    /\ stats' = ResetStats
    /\ lastOp' = [Did("reset", <<>>, 0) EXCEPT !.cleared = Len(attempts)]

handleReset ==
    /\ autoEnhanceInterval' = <<>>
    /\ isAutoEnhancing' = FALSE
    /\ currentLevel' = 1
    /\ currentLevelRef' = 1
    /\ attempts' = <<>>
    /\ stats' = ResetStats
    /\ lastOp' = [Did("reset", <<>>, 0) EXCEPT !.cleared = Len(attempts)]

\* a Reset button that stays enabled while auto-enhance runs
ClickReset_whileAuto ==
    /\ handleReset
    /\ UNCHANGED <<variant, targetLevel, call>>

ClickReset ==
    /\ ~isAutoEnhancing
    /\ handleReset
    /\ UNCHANGED <<variant, targetLevel, call>>

(***************************************************************************)
(* handleSetCurrentLevel, lines 247-259 (and 699-711), behind the Set      *)
(* button, lines 425-431: disabled={isAutoEnhancing}.                      *)
(***************************************************************************)
\* a set-level with the commented-out lines 251-258 (703-710) put back: it
\* empties the log and restarts the statistics at the new level
handleSetCurrentLevel_resetsLog(setLevelInput) ==
    LET newLevel == Min(15, Max(1, setLevelInput))
    IN /\ currentLevel' = newLevel
       /\ currentLevelRef' = newLevel
       /\ attempts' = <<>>
       /\ stats' = [ZeroStats EXCEPT !.finalLevel = newLevel]
       /\ lastOp' = Did("set", <<>>, setLevelInput)
       /\ UNCHANGED <<isAutoEnhancing, autoEnhanceInterval>>

\* the history keeps setLevelInput, the level that was asked for
handleSetCurrentLevel(setLevelInput) ==
    LET newLevel == Min(15, Max(1, setLevelInput))
    IN /\ currentLevel' = newLevel
       /\ currentLevelRef' = newLevel
       /\ lastOp' = Did("set", <<>>, setLevelInput)
       /\ UNCHANGED <<attempts, stats, isAutoEnhancing, autoEnhanceInterval>>

ClickSet ==
    /\ ~isAutoEnhancing
    /\ \E typed \in SetLevelTyped : handleSetCurrentLevel(ClampLevelInput(typed))
    /\ UNCHANGED <<variant, targetLevel, call>>

\* the Target Level field, lines 367-376: disabled={isAutoEnhancing}
ChangeTargetLevel ==
    /\ ~isAutoEnhancing
    /\ \E typed \in TargetLevelTyped : targetLevel' = ClampLevelInput(typed)
    /\ lastOp' = Did("target", <<>>, 0)
    /\ UNCHANGED <<variant, currentLevel, attempts, isAutoEnhancing,
                   autoEnhanceInterval, currentLevelRef, stats, call>>

(***************************************************************************)
(* handleSetTotalAttempts, lines 261-275 (and 713-727), behind the Run     *)
(* button, lines 448-454: disabled={isAutoEnhancing}.                      *)
(***************************************************************************)
\* a loop without the `break` of line 266
RECURSIVE BatchLoop_noBreak(_, _, _, _, _)
BatchLoop_noBreak(i, totalAttemptsInput, tempLevel, newAttempts, levels) ==
    IF ~(i < totalAttemptsInput)
    THEN {[tempLevel |-> tempLevel, newAttempts |-> newAttempts,
           levels |-> levels, threw |-> FALSE]}
    ELSE UNION {
           LET result == enhance(tempLevel, draw[1], draw[2])
           IN IF Threw(result)
              THEN {[tempLevel |-> tempLevel, newAttempts |-> newAttempts,
                     levels |-> Append(levels, tempLevel), threw |-> TRUE]}
              ELSE BatchLoop_noBreak(i + 1, totalAttemptsInput, result.newLevel,
                                     Append(newAttempts, result),
                                     Append(levels, tempLevel))
           : draw \in Draws \X Draws }

\* a loop that runs once too often: `i <= totalAttemptsInput`
RECURSIVE BatchLoop_offByOne(_, _, _, _, _)
BatchLoop_offByOne(i, totalAttemptsInput, tempLevel, newAttempts, levels) ==
    IF ~(i <= totalAttemptsInput)
    THEN {[tempLevel |-> tempLevel, newAttempts |-> newAttempts,
           levels |-> levels, threw |-> FALSE]}
    ELSE IF tempLevel >= targetLevel \/ tempLevel >= 15
    THEN {[tempLevel |-> tempLevel, newAttempts |-> newAttempts,
           levels |-> levels, threw |-> FALSE]}
    ELSE UNION {
           LET result == enhance(tempLevel, draw[1], draw[2])
           IN IF Threw(result)
              THEN {[tempLevel |-> tempLevel, newAttempts |-> newAttempts,
                     levels |-> Append(levels, tempLevel), threw |-> TRUE]}
              ELSE BatchLoop_offByOne(i + 1, totalAttemptsInput, result.newLevel,
                                      Append(newAttempts, result),
                                      Append(levels, tempLevel))
           : draw \in Draws \X Draws }

\* the for loop of lines 265-270 from iteration i on, for every result the
\* draws of Math.random() can give: the set of the loop's possible outcomes.
\* `levels` collects the levels handed to enhance.
RECURSIVE BatchLoop(_, _, _, _, _)
BatchLoop(i, totalAttemptsInput, tempLevel, newAttempts, levels) ==
    IF ~(i < totalAttemptsInput)
    THEN {[tempLevel |-> tempLevel, newAttempts |-> newAttempts,
           levels |-> levels, threw |-> FALSE]}
    ELSE IF tempLevel >= targetLevel \/ tempLevel >= 15
    THEN {[tempLevel |-> tempLevel, newAttempts |-> newAttempts,
           levels |-> levels, threw |-> FALSE]}
    ELSE UNION {
           LET result == enhance(tempLevel, draw[1], draw[2])
           IN IF Threw(result)
              THEN {[tempLevel |-> tempLevel, newAttempts |-> newAttempts,
                     levels |-> Append(levels, tempLevel), threw |-> TRUE]}
              ELSE BatchLoop(i + 1, totalAttemptsInput, result.newLevel,
                             Append(newAttempts, result),
                             Append(levels, tempLevel))
           : draw \in Draws \X Draws }

\* a batch run that starts from an empty array instead of `[...attempts]`
handleSetTotalAttempts_fresh(totalAttemptsInput) ==
    IF isAutoEnhancing
    THEN /\ lastOp' = Did("run", <<>>, totalAttemptsInput)
         /\ UNCHANGED <<currentLevel, currentLevelRef, attempts, stats>>
    ELSE \E run \in BatchLoop(0, totalAttemptsInput, currentLevelRef, <<>>, <<>>) :
            /\ Len(run.newAttempts) <= MaxLog
            /\ lastOp' = Did("run", run.levels, totalAttemptsInput)
            /\ IF run.threw
               THEN UNCHANGED <<currentLevel, currentLevelRef, attempts, stats>>
               ELSE /\ attempts' = run.newAttempts
                    /\ stats' = calculateStats(run.newAttempts)
                    /\ currentLevel' = run.tempLevel
                    /\ currentLevelRef' = run.tempLevel

handleSetTotalAttempts(totalAttemptsInput) ==
    IF isAutoEnhancing
    THEN /\ lastOp' = Did("run", <<>>, totalAttemptsInput)
         /\ UNCHANGED <<currentLevel, currentLevelRef, attempts, stats>>
    ELSE \E run \in BatchLoop(0, totalAttemptsInput, currentLevelRef, attempts, <<>>) :
            /\ Len(run.newAttempts) <= MaxLog
            /\ lastOp' = Did("run", run.levels, totalAttemptsInput)
            /\ IF run.threw
               THEN UNCHANGED <<currentLevel, currentLevelRef, attempts, stats>>
               ELSE /\ attempts' = run.newAttempts
                    /\ stats' = calculateStats(run.newAttempts)
                    /\ currentLevel' = run.tempLevel
                    /\ currentLevelRef' = run.tempLevel

ClickRun ==
    /\ ~isAutoEnhancing
    /\ \E typed \in AttemptsTyped : handleSetTotalAttempts(ClampAttemptsInput(typed))
    /\ UNCHANGED <<variant, targetLevel, isAutoEnhancing, autoEnhanceInterval, call>>

(***************************************************************************)
(* The session: every interleaving of the user's clicks, the timer and the *)
(* deferred effect.                                                        *)
(***************************************************************************)
Next ==
    \/ ClickEnhance
    \/ ClickAuto
    \/ TimerTick
    \/ SyncLevelRef
    \/ ClickReset
    \/ ClickSet
    \/ ChangeTargetLevel
    \/ ClickRun

Spec == Init /\ [][Next]_vars

(***************************************************************************)
(* A single call of enhance on any level and any pair of draws.            *)
(***************************************************************************)
InitEnhance ==
    /\ variant \in Variants
    /\ InitSession
    /\ \E level \in LevelArgs, rSuccess \in AllDraws, rDamage \in AllDraws :
          call = [level |-> level, rSuccess |-> rSuccess, rDamage |-> rDamage,
                  done |-> FALSE, result |-> [pending |-> TRUE]]

CallEnhance ==
    /\ ~call.done
    /\ call' = [call EXCEPT !.done = TRUE,
                            !.result = enhance(call.level, call.rSuccess, call.rDamage)]
    /\ UNCHANGED <<variant, sessionVars>>

NextEnhance == CallEnhance

SpecEnhance == InitEnhance /\ [][NextEnhance]_vars

(***************************************************************************)
(* Batch runs from any session at rest with an empty log: any current      *)
(* level (set with the Set button) and any target level.                   *)
(***************************************************************************)
InitBatch ==
    /\ variant \in Variants
    /\ currentLevel \in 1..15
    /\ attempts = <<>>
    /\ targetLevel \in 1..15
    /\ isAutoEnhancing = FALSE
    /\ autoEnhanceInterval = <<>>
    /\ currentLevelRef = currentLevel
    /\ stats = InitialStats
    /\ lastOp = NoOp
    /\ call = NoCall

NextBatch == ClickRun

SpecBatch == InitBatch /\ [][NextBatch]_vars

(***************************************************************************)
(* A single call of calculateReachTargetChance on any pair of levels,      *)
(* inside and outside 1..15.                                               *)
(***************************************************************************)
InitChance ==
    /\ variant \in Variants
    /\ InitSession
    /\ \E current \in LevelArgs, target \in LevelArgs :
          call = [current |-> current, target |-> target,
                  done |-> FALSE, result |-> [pending |-> TRUE]]

CallChance ==
    /\ ~call.done
    /\ call' = [call EXCEPT !.done = TRUE,
                            !.result = calculateReachTargetChance(call.current, call.target)]
    /\ UNCHANGED <<variant, sessionVars>>

NextChance == CallChance

SpecChance == InitChance /\ [][NextChance]_vars

(***************************************************************************)
(* A single call of calculateStats on any log of at most MaxStatsLog       *)
(* entries.  An entry is an outcome enhance returns at one of the levels   *)
(* 1..14 a session enhances from; the Set button moves the level between   *)
(* attempts, so the entries of a log follow each other in any order.       *)
(***************************************************************************)
Outcomes == {enhance(level, rSuccess, rDamage) :
                level \in 1..14, rSuccess \in Draws, rDamage \in Draws}

Logs == UNION {[1..n -> Outcomes] : n \in 0..MaxStatsLog}

InitStats ==
    /\ variant \in Variants
    /\ InitSession
    /\ \E log \in Logs :
          call = [log |-> log, done |-> FALSE, result |-> [pending |-> TRUE]]

CallStats ==
    /\ ~call.done
    /\ call' = [call EXCEPT !.done = TRUE, !.result = calculateStats(call.log)]
    /\ UNCHANGED <<variant, sessionVars>>

NextStats == CallStats

SpecStats == InitStats /\ [][NextStats]_vars

(***************************************************************************)
(* One run of one driver through the deterministic levels: the session is  *)
(* at rest with an empty log at a level L <= 6 (set with the Set button)   *)
(* and a target T with L < T <= 7; then either the Run button is clicked   *)
(* once, or Auto Enhance is clicked once and the timer and the deferred    *)
(* effect run.                                                             *)
(***************************************************************************)
InitProgress ==
    /\ variant \in Variants
    /\ currentLevel \in 1..6
    /\ attempts = <<>>
    /\ targetLevel \in (currentLevel + 1)..7
    /\ isAutoEnhancing = FALSE
    /\ autoEnhanceInterval = <<>>
    /\ currentLevelRef = currentLevel
    /\ stats = InitialStats
    /\ lastOp = NoOp
    /\ call = NoCall

\* the first click is on Auto Enhance
StartAuto ==
    /\ lastOp = NoOp
    /\ ClickAuto

\* the first click is on Run
RunOnce ==
    /\ lastOp = NoOp
    /\ ClickRun

NextProgress ==
    \/ StartAuto
    \/ RunOnce
    \/ TimerTick
    \/ SyncLevelRef

SpecProgress == InitProgress /\ [][NextProgress]_vars

(***************************************************************************)
(* Properties of enhance, checked under SpecEnhance.                       *)
(***************************************************************************)
\* the penalty table as the specification states it
StatedPenalty(level) ==
    IF level \in (1..6) \cup {9} THEN 0
    ELSE IF level \in {7, 10} THEN -1
    ELSE -2

\* C1: for every level with a rule (1..15) and every pair of draws, enhance
\* returns newLevel = level + 1 on success and max(1, level + penalty) on
\* failure, the penalty being 0 for levels 1-6 and 9, -1 for 7 and 10, and -2
\* for 8 and 11-15.
C1_NewLevelByOutcome ==
    (call.done /\ call.level \in 1..15) =>
        /\ ~Threw(call.result)
        /\ call.result.newLevel =
              IF call.result.success THEN call.level + 1
              ELSE Max(1, call.level + StatedPenalty(call.level))

\* a failed attempt at level 8 has dropped the level by two
C1_Witness ==
    /\ call.done
    /\ call.level = 8
    /\ ~call.result.success
    /\ call.result.newLevel = 6

\* C2: for every level in 1..15 and both outcomes, the newLevel enhance
\* returns is in [1,15]: success never takes the level above 15 and failure
\* never takes it below 1.
C2_NewLevelInRange ==
    (call.done /\ call.level \in 1..15) => call.result.newLevel \in 1..15

\* C4: enhance fails with InvalidLevel exactly when the level has no rule
\* (is outside 1..15), and then returns no outcome; for every level in 1..15
\* it returns an outcome and does not raise.
C4_InvalidLevelExactly ==
    call.done =>
        IF call.level \in 1..15
        THEN DOMAIN call.result = {"success", "newLevel", "damageOccurred", "goldSpent"}
        ELSE call.result = [error |-> "Invalid enhancement level"]

\* enhance was called on level 16 and raised
C4_Witness ==
    /\ call.done
    /\ call.level = 16
    /\ Threw(call.result)

\* C5: for every level in 1..6 and every pair of draws, enhance returns
\* success = true, damageOccurred = false and newLevel = level + 1.
C5_DeterministicLevels ==
    (call.done /\ call.level \in 1..6) =>
        /\ call.result.success = TRUE
        /\ call.result.damageOccurred = FALSE
        /\ call.result.newLevel = call.level + 1

\* level 6 succeeded on the highest success draw and the lowest damage draw
C5_Witness ==
    /\ call.done
    /\ call.level = 6
    /\ call.rSuccess = 99
    /\ call.rDamage = 0
    /\ call.result.success
    /\ ~call.result.damageOccurred

(***************************************************************************)
(* Properties of the session, checked under Spec (every interleaving of    *)
(* clicks, timer ticks and the deferred effect) or under SpecBatch (batch  *)
(* runs from every current level and target).                              *)
(***************************************************************************)
\* s is an initial segment of t
IsPrefix(s, t) == Len(s) <= Len(t) /\ SubSeq(t, 1, Len(s)) = s

\* C3: in every reachable session state currentLevel is in [1,15] and every
\* entry of the attempt log has newLevel in [1,15].
C3_LevelsInRange ==
    /\ currentLevel \in 1..15
    /\ \A i \in 1..Len(attempts) : attempts[i].newLevel \in 1..15

\* an attempt at level 14 succeeded: the session stands at level 15
C3_Witness ==
    /\ currentLevel = 15
    /\ attempts # <<>>
    /\ attempts[Len(attempts)].newLevel = 15
    /\ attempts[Len(attempts)].success

\* C6: the attempt log is append-only except on reset: in every step that is
\* not a reset the log before the step is a prefix of the log after it, and
\* only a reset turns a non-empty log into the empty one.
C6_AppendOnlyExceptReset ==
    [][ /\ (lastOp'.name # "reset") => IsPrefix(attempts, attempts')
        /\ (attempts # <<>> /\ attempts' = <<>>) => lastOp'.name = "reset"
      ]_vars

\* a batch run has appended one outcome to a log that held one already
C6_Witness ==
    /\ lastOp.name = "run"
    /\ Len(lastOp.levels) = 1
    /\ Len(attempts) = 2

\* the zero-state of a session: what a freshly constructed component holds,
\* but for the target level, which reset leaves alone
ZeroState ==
    /\ currentLevel = 1
    /\ currentLevelRef = 1
    /\ attempts = <<>>
    /\ stats.totalAttempts = 0
    /\ stats.totalGoldSpent = 0
    /\ stats.successRate = <<0, 1>>
    /\ stats.finalLevel = 1
    /\ IF variant = "rich"
       THEN stats.jellyCost = 0 /\ stats.essenceCost = 0 /\ stats.diamondCost = 0
       ELSE stats.damageRate = <<0, 1>>
    /\ stats = InitialStats
    /\ autoEnhanceInterval = <<>>
    /\ isAutoEnhancing = FALSE

\* C7: after any sequence of attempts and set-level actions, reset yields the
\* zero-state of a fresh session (currentLevel = 1, empty log, statistics all
\* zero with finalLevel = 1, no timer), and a second reset changes nothing.
C7_ResetToZeroState ==
    /\ [](lastOp.name = "reset" => ZeroState)
    /\ [][ (lastOp.name = "reset" /\ lastOp'.name = "reset") =>
              UNCHANGED <<variant, currentLevel, currentLevelRef, attempts, stats,
                          targetLevel, autoEnhanceInterval, isAutoEnhancing>>
         ]_vars

\* a reset has discarded a log of two attempts
C7_Witness ==
    /\ lastOp.name = "reset"
    /\ lastOp.cleared = 2

\* C8: a batch run appends at most maxAttempts outcomes, one per attempt it
\* resolves; every attempt is resolved from a running level strictly below
\* both the target and 15; a run started at a level >= target or >= 15
\* resolves no attempt.
C8_BatchBounded ==
    [][ (lastOp'.name = "run") =>
          /\ Len(attempts') = Len(attempts) + Len(lastOp'.levels)
          /\ Len(lastOp'.levels) <= lastOp'.max
          /\ \A i \in 1..Len(lastOp'.levels) :
                lastOp'.levels[i] < targetLevel /\ lastOp'.levels[i] < 15
          /\ (currentLevel >= targetLevel \/ currentLevel >= 15) =>
                (lastOp'.levels = <<>> /\ attempts' = attempts)
      ]_vars

\* a batch run of two attempts has resolved both
C8_Witness ==
    /\ lastOp.name = "run"
    /\ lastOp.max = 2
    /\ Len(lastOp.levels) = 2
    /\ Len(attempts) = 2

\* C9 as stated: when a batch run returns, the resulting level equals 15, or
\* equals the target, or exactly maxAttempts outcomes were produced.
C9_StopsAtTargetMaxOrFifteen ==
    (lastOp.name = "run") =>
        \/ currentLevel = 15
        \/ currentLevel = targetLevel
        \/ Len(lastOp.levels) = lastOp.max

\* C9 as amended: when a batch run returns, the resulting level equals 15, or
\* equals the target, or exactly maxAttempts outcomes were produced, or the
\* run started above the target and resolved no attempt; and the run stops
\* at the first iteration at which the level is 15 or at least the target or
\* maxAttempts outcomes were produced (it resolves no attempt from there).
C9_StopsAtFirstCondition ==
    (lastOp.name = "run") =>
        /\ \/ currentLevel = 15
           \/ currentLevel = targetLevel
           \/ Len(lastOp.levels) = lastOp.max
           \/ (currentLevel > targetLevel /\ lastOp.levels = <<>>)
        /\ \A i \in 1..Len(lastOp.levels) :
              /\ lastOp.levels[i] < targetLevel
              /\ lastOp.levels[i] < 15
              /\ i <= lastOp.max

\* a batch run of three attempts has stopped after one, on reaching the target
C9_Witness ==
    /\ lastOp.name = "run"
    /\ lastOp.max = 3
    /\ Len(lastOp.levels) = 1
    /\ currentLevel = targetLevel
    /\ currentLevel < 15

\* C10: at a timer tick at which the session's current level is >= the target
\* or >= 15, no attempt is resolved, the timer is cleared and the
\* auto-enhancing flag becomes false; no timer-driven attempt is resolved
\* from a session level that is already >= target or >= 15.
C10_TickStopsAtTarget ==
    [][ (lastOp'.name = "tick") =>
          /\ (currentLevel >= autoEnhanceInterval[1] \/ currentLevel >= 15) =>
                /\ attempts' = attempts
                /\ autoEnhanceInterval' = <<>>
                /\ isAutoEnhancing' = FALSE
          /\ (attempts' # attempts) =>
                (currentLevel < autoEnhanceInterval[1] /\ currentLevel < 15)
      ]_vars

\* the same with the level the tick reads, currentLevelRef, in place of the
\* session's currentLevel: this is what the callback of lines 213-224 ensures
TickStopsAtTargetByRef ==
    [][ (lastOp'.name = "tick") =>
          /\ (currentLevelRef >= autoEnhanceInterval[1] \/ currentLevelRef >= 15) =>
                /\ attempts' = attempts
                /\ autoEnhanceInterval' = <<>>
                /\ isAutoEnhancing' = FALSE
          /\ (attempts' # attempts) =>
                (currentLevelRef < autoEnhanceInterval[1] /\ currentLevelRef < 15)
      ]_vars

\* outside an auto-enhance run the level reference is in step with the level
RefInStepAtRest == ~isAutoEnhancing => currentLevelRef = currentLevel

(***************************************************************************)
(* Control of the session: the timer, the manual trigger and the buttons   *)
(* that are disabled while auto-enhance runs.  Checked under Spec.         *)
(***************************************************************************)
\* C11: after a stop request (handleAutoEnhance while auto-enhancing) no
\* timer tick appends an attempt until auto-enhance is started again: a tick
\* appends only while auto-enhance is on, the stop turns it off and only a
\* start turns it on; the stop keeps the log and currentLevel as they are.
C11_StopCancelsNextTick ==
    /\ [][(lastOp'.name = "stop") =>
            /\ isAutoEnhancing /\ ~isAutoEnhancing'
            /\ attempts' = attempts
            /\ currentLevel' = currentLevel]_vars
    /\ [][(lastOp'.name = "tick" /\ attempts' # attempts) => isAutoEnhancing]_vars
    /\ [][(~isAutoEnhancing /\ isAutoEnhancing') => lastOp'.name = "start"]_vars

\* auto-enhance was stopped with outcomes in the log and no timer left
C11_Witness ==
    /\ lastOp.name = "stop"
    /\ attempts # <<>>
    /\ ~isAutoEnhancing
    /\ autoEnhanceInterval = <<>>

\* C12: while a timer is scheduled the manual trigger resolves no attempt:
\* every step that changes the log while a timer is scheduled is a timer tick,
\* and a tick or a manual attempt appends exactly one outcome to the log.
C12_OnlyTicksWhileScheduled ==
    /\ [][(autoEnhanceInterval # <<>> /\ attempts' # attempts) =>
            lastOp'.name = "tick"]_vars
    /\ [][(lastOp'.name = "enhance") => autoEnhanceInterval = <<>>]_vars
    /\ [][(lastOp'.name \in {"tick", "enhance"} /\ attempts' # attempts) =>
            /\ Len(attempts') = Len(attempts) + 1
            /\ IsPrefix(attempts, attempts')]_vars

\* a tick appended an outcome and the timer is still scheduled
C12_Witness ==
    /\ lastOp.name = "tick"
    /\ lastOp.levels # <<>>
    /\ attempts # <<>>
    /\ autoEnhanceInterval # <<>>

\* C13: while auto-enhance is active no batch run, reset or set-level takes
\* effect: every step that changes currentLevel or the log is a timer tick;
\* while it is not active no tick changes them; and auto-enhance goes on or
\* off only by a start, a stop or the loop's own termination in a tick.
C13_SingleDriver ==
    /\ [][isAutoEnhancing =>
            /\ lastOp'.name \notin {"run", "reset", "set", "enhance"}
            /\ (currentLevel' # currentLevel \/ attempts' # attempts) =>
                  lastOp'.name = "tick"]_vars
    /\ [][(~isAutoEnhancing /\ (currentLevel' # currentLevel \/ attempts' # attempts)) =>
            lastOp'.name \in {"enhance", "run", "reset", "set"}]_vars
    /\ [][(isAutoEnhancing' # isAutoEnhancing) =>
            lastOp'.name \in {"start", "stop", "tick"}]_vars

\* auto-enhance is active and its tick has just moved the level
C13_Witness ==
    /\ isAutoEnhancing
    /\ lastOp.name = "tick"
    /\ lastOp.levels # <<>>
    /\ currentLevel # lastOp.levels[1]

(***************************************************************************)
(* Properties of calculateReachTargetChance, checked under SpecChance.     *)
(***************************************************************************)
\* how many times the prime p divides n (n > 0)
RECURSIVE Multiplicity(_, _)
Multiplicity(p, n) == IF n % p = 0 THEN 1 + Multiplicity(p, n \div p) ELSE 0

\* the primes that divide some rate in hundredths, or 100
RatePrimes == {2, 3, 5, 7}

\* how many times p divides 10
InTen(p) == IF p \in {2, 5} THEN 1 ELSE 0

\* The decimal <<m, e>> is the product of the success rates of the levels
\* from..(to - 1), each rate being a number of hundredths: on both sides
\* every prime has the same multiplicity, and m has no other prime factor.
IsProductOfRates(d, from, to) ==
    LET m == d[1]
        e == d[2]
        n == to - from
        InRates(p) == Sum([i \in 1..n |->
                            Multiplicity(p, ENHANCEMENT_RULES[from + i - 1].successRate)])
    IN /\ m > 0
       /\ \A p \in RatePrimes :
             Multiplicity(p, m) - InTen(p) * e = InRates(p) - InTen(p) * 2 * n
       /\ m = (2 ^ Multiplicity(2, m)) * (3 ^ Multiplicity(3, m))
                * (5 ^ Multiplicity(5, m)) * (7 ^ Multiplicity(7, m))

\* C14: for current < target with every level of current..target-1 in 1..15,
\* calculateReachTargetChance returns exactly the product of the success
\* rates of the levels current..target-1, the target's own rate left out;
\* (7,9) gives 0.18 and (1,15) the product over the levels 1..14.
C14_ExactProduct ==
    (/\ call.done
     /\ call.current < call.target
     /\ \A l \in call.current..(call.target - 1) : l \in 1..15) =>
        /\ IsProductOfRates(call.result, call.current, call.target)
        /\ (call.current = 7 /\ call.target = 9) => call.result = <<18, 2>>
        /\ (call.current = 1 /\ call.target = 15) => call.result = <<70875, 10>>

\* the chance of reaching level 9 from level 7 was computed as 0.18
C14_Witness ==
    /\ call.done
    /\ call.current = 7
    /\ call.target = 9
    /\ call.result = <<18, 2>>

\* C15: for all current and target with target <= current, inside or outside
\* 1..15, calculateReachTargetChance returns exactly 1.
C15_OneWhenReached ==
    (call.done /\ call.target <= call.current) => call.result = <<1, 0>>

\* the function returned 1 for two levels outside 1..15, the target below
C15_Witness ==
    /\ call.done
    /\ call.current = 16
    /\ call.target = 0
    /\ call.result = <<1, 0>>

\* the decimal d lies in [0,1]; a mantissa below 2^31 is below 10^10
InUnitInterval(d) == d[1] >= 0 /\ (d[2] >= 10 \/ d[1] <= 10 ^ d[2])

\* C16: for current < target with some level of current..target-1 outside
\* 1..15 calculateReachTargetChance returns the number 0 and raises nothing;
\* and for all inputs its result is in [0,1].
C16_ZeroWithoutRule ==
    call.done =>
        /\ (/\ call.current < call.target
            /\ \E l \in call.current..(call.target - 1) : l \notin 1..15) =>
              call.result = <<0, 0>>
        /\ InUnitInterval(call.result)

\* levels 14 and 15 have a rule and level 16 has none: the chance from 14
\* to 17 was computed as 0
C16_Witness ==
    /\ call.done
    /\ call.current = 14
    /\ call.target = 17
    /\ call.result = <<0, 0>>

(***************************************************************************)
(* Properties of calculateStats, checked under SpecStats (a single call on *)
(* any log) or under Spec (the log and the statistics of a session).       *)
(***************************************************************************)
\* C17: calculateStats of the empty log returns totalAttempts = 0,
\* totalGoldSpent = 0, successRate = 0, every other total or rate = 0 and
\* finalLevel = 1; nothing is divided by zero.
C17_EmptyLogAllZero ==
    (call.done /\ call.log = <<>>) =>
        /\ call.result.totalAttempts = 0
        /\ call.result.totalGoldSpent = 0
        /\ call.result.successRate = <<0, 1>>
        /\ call.result.finalLevel = 1
        /\ IF variant = "rich"
           THEN /\ call.result.jellyCost = 0
                /\ call.result.essenceCost = 0
                /\ call.result.diamondCost = 0
           ELSE call.result.damageRate = <<0, 1>>

\* calculateStats was called on the empty log and returned
C17_Witness ==
    /\ call.done
    /\ call.log = <<>>
    /\ DOMAIN call.result # {"pending"}

\* C18: for every non-empty log calculateStats returns totalAttempts = the
\* length of the log, and successRate * totalAttempts = the number of entries
\* with success = true.
C18_AttemptsAndSuccessRate ==
    (call.done /\ call.log # <<>>) =>
        LET successes == Cardinality({i \in 1..Len(call.log) : call.log[i].success})
            rate == call.result.successRate
        IN /\ call.result.totalAttempts = Len(call.log)
           /\ rate[2] > 0
           /\ rate[1] * call.result.totalAttempts = successes * rate[2]

\* a log of one success and one failure got the success rate 1/2
C18_Witness ==
    /\ call.done
    /\ Len(call.log) = 2
    /\ call.log[1].success
    /\ ~call.log[2].success
    /\ call.result.successRate = <<1, 2>>

\* C19: for every non-empty log calculateStats returns finalLevel = newLevel
\* of the last entry, whatever the earlier entries are.
C19_FinalLevelIsLast ==
    (call.done /\ call.log # <<>>) =>
        call.result.finalLevel = call.log[Len(call.log)].newLevel

\* the two entries of the log differ in newLevel and finalLevel is the second's
C19_Witness ==
    /\ call.done
    /\ Len(call.log) = 2
    /\ call.log[1].newLevel # call.log[2].newLevel
    /\ call.result.finalLevel = call.log[2].newLevel

\* the fixed primary cost of an attempt: 5 in the rich variant, 75 in the simple
StatedCost == IF variant = "rich" THEN 5 ELSE 75

\* C20: every entry of a session's log records the same fixed cost, at every
\* level and on success and failure alike, and totalGoldSpent = the sum of
\* the recorded costs = totalAttempts times that cost (5 rich, 75 simple).
C20_GoldIsAttemptsTimesCost ==
    /\ \A i \in 1..Len(attempts) : attempts[i].goldSpent = StatedCost
    /\ stats.totalAttempts = Len(attempts)
    /\ stats.totalGoldSpent = Sum([i \in 1..Len(attempts) |-> attempts[i].goldSpent])
    /\ stats.totalGoldSpent = stats.totalAttempts * StatedCost

\* the session's log holds a failure and a success at different levels, and
\* two attempts were charged
C20_Witness ==
    /\ Len(attempts) = 2
    /\ ~attempts[1].success
    /\ attempts[2].success
    /\ attempts[1].newLevel # attempts[2].newLevel
    /\ stats.totalGoldSpent = 2 * StatedCost

\* the tier amounts (A, B, C) = (jelly, essence, diamond) of one attempt
StatedTier(newLevel) ==
    IF newLevel <= 3 THEN <<18, 1, 1>>
    ELSE IF newLevel \in 4..6 THEN <<18, 2, 2>>
    ELSE IF newLevel \in 7..10 THEN <<18, 3, 2>>
    ELSE IF newLevel \in 11..13 THEN <<18, 4, 3>>
    ELSE IF newLevel = 14 THEN <<18, 5, 4>>
    ELSE <<24, 6, 6>>

\* the sum over the entries of log of the k-th tier amount for the entry's newLevel
TierTotal(log, k) == Sum([i \in 1..Len(log) |-> StatedTier(log[i].newLevel)[k]])

\* C21: in the rich variant each secondary-currency total calculateStats
\* returns is the sum over the log's entries of the tier amount for the
\* entry's newLevel: (18,1,1) up to 3, (18,2,2) for 4-6, (18,3,2) for 7-10,
\* (18,4,3) for 11-13, (18,5,4) for 14 and (24,6,6) for 15.
C21_TierTotalsByNewLevel ==
    (call.done /\ variant = "rich") =>
        /\ call.result.jellyCost = TierTotal(call.log, 1)
        /\ call.result.essenceCost = TierTotal(call.log, 2)
        /\ call.result.diamondCost = TierTotal(call.log, 3)

\* a failure that fell to level 6 and a success that reached level 15 cost
\* 18 + 24 jelly, 2 + 6 essence and 2 + 6 diamonds
C21_Witness ==
    /\ call.done
    /\ variant = "rich"
    /\ Len(call.log) = 2
    /\ ~call.log[1].success /\ call.log[1].newLevel = 6
    /\ call.log[2].success /\ call.log[2].newLevel = 15
    /\ call.result.jellyCost = 42
    /\ call.result.essenceCost = 8
    /\ call.result.diamondCost = 8

\* the number of successes a statistics record stands for
SuccessCount(s) == (s.successRate[1] * s.totalAttempts) \div s.successRate[2]

\* the number of damaged attempts a statistics record of the simple variant stands for
DamageCount(s) == (s.damageRate[1] * s.totalAttempts) \div s.damageRate[2]

\* C22: calculateStats is a fold: for every log L and outcome e, the counts
\* and totals of calculateStats(L followed by e) are those of
\* calculateStats(L) plus e's own share (1 attempt, 1 success if e.success,
\* the fixed cost, the tier amounts of e.newLevel), and finalLevel is
\* e.newLevel.
C22_FoldStep ==
    (call.done /\ call.log # <<>>) =>
        LET L == SubSeq(call.log, 1, Len(call.log) - 1)
            e == call.log[Len(call.log)]
            before == calculateStats(L)
            after == call.result
        IN /\ after.totalAttempts = before.totalAttempts + 1
           /\ SuccessCount(after) = SuccessCount(before) + (IF e.success THEN 1 ELSE 0)
           /\ after.totalGoldSpent = before.totalGoldSpent + StatedCost
           /\ after.finalLevel = e.newLevel
           /\ variant = "simple" =>
                 DamageCount(after) = DamageCount(before)
                                        + (IF e.damageOccurred THEN 1 ELSE 0)
           /\ variant = "rich" =>
                 /\ after.jellyCost = before.jellyCost + StatedTier(e.newLevel)[1]
                 /\ after.essenceCost = before.essenceCost + StatedTier(e.newLevel)[2]
                 /\ after.diamondCost = before.diamondCost + StatedTier(e.newLevel)[3]

\* a log of two entries whose second is a failure: one success is counted
\* and two attempts are charged
C22_Witness ==
    /\ call.done
    /\ Len(call.log) = 2
    /\ call.log[1].success
    /\ ~call.log[2].success
    /\ call.result.totalAttempts = 2
    /\ call.result.totalGoldSpent = 2 * StatedCost
    /\ call.result.finalLevel = call.log[2].newLevel

(***************************************************************************)
(* Properties of the session's handlers, checked under Spec.               *)
(***************************************************************************)
\* C23: the target level never constrains a manual attempt: whenever
\* auto-enhance is not active and currentLevel < 15 (and the log has room for
\* one more entry) a manual enhance can be taken, also at or above the
\* target; it resolves one attempt at currentLevel and appends exactly its
\* outcome; and changing targetLevel changes neither currentLevel nor the log.
C23_TargetNeverBlocksManual ==
    /\ []((~isAutoEnhancing /\ currentLevel < 15 /\ Len(attempts) < MaxLog) =>
            ENABLED ClickEnhance)
    /\ [][(lastOp'.name = "enhance") =>
            /\ lastOp'.levels = <<currentLevel>>
            /\ Len(attempts') = Len(attempts) + 1
            /\ IsPrefix(attempts, attempts')
            /\ currentLevel' = attempts'[Len(attempts')].newLevel]_vars
    /\ [][(targetLevel' # targetLevel) =>
            /\ currentLevel' = currentLevel
            /\ attempts' = attempts]_vars

\* a manual enhance has just resolved an attempt at a level above the target
C23_Witness ==
    /\ lastOp.name = "enhance"
    /\ lastOp.levels # <<>>
    /\ lastOp.levels[1] > targetLevel
    /\ attempts # <<>>

\* C24: no driver resolves an attempt at level 15 or at a level without a
\* rule: every level that a manual enhance, a batch run or a tick hands to
\* enhance is in [1,14], so enhance never raises; and at level 15 no manual
\* enhance takes place, so currentLevel, the log and the statistics stay.
C24_ResolverLevelsInRange ==
    /\ \A i \in 1..Len(lastOp.levels) :
          /\ lastOp.levels[i] \in 1..14
          /\ \A rSuccess \in Draws, rDamage \in Draws :
                ~Threw(enhance(lastOp.levels[i], rSuccess, rDamage))
    /\ (lastOp.name \in {"enhance", "tick"} /\ lastOp.levels # <<>>) =>
          attempts # <<>>
    /\ (currentLevel >= 15) => ~ENABLED ClickEnhance

\* a batch run resolved its last attempt at level 14 and stopped at level 15
C24_Witness ==
    /\ lastOp.name = "run"
    /\ lastOp.levels # <<>>
    /\ lastOp.levels[Len(lastOp.levels)] = 14
    /\ currentLevel = 15

\* C25: in every reachable session state the stored statistics are
\* calculateStats of the current attempt log.
C25_StatsMatchLog == stats = calculateStats(attempts)

\* a tick has just appended the second outcome and the statistics count two
C25_Witness ==
    /\ lastOp.name = "tick"
    /\ lastOp.levels # <<>>
    /\ Len(attempts) = 2
    /\ stats.totalAttempts = 2

\* currentLevel is the newLevel of the last log entry (and the finalLevel
\* statistic), or 1 when the log is empty
LevelFollowsLog ==
    IF attempts = <<>>
    THEN currentLevel = 1
    ELSE /\ currentLevel = attempts[Len(attempts)].newLevel
         /\ currentLevel = stats.finalLevel

\* C26 as stated: in every reachable session state currentLevel equals the
\* newLevel of the last log entry (hence the finalLevel statistic) when the
\* log is non-empty, and 1 when it is empty.
C26_LevelIsLastNewLevel == LevelFollowsLog

\* C26 amended: the session starts with currentLevel following the log;
\* every step that changes the log (an appended outcome, a reset) leaves
\* currentLevel following it; and only a set-level makes currentLevel stop
\* following the log.
C26_LevelFollowsLogUnlessSet ==
    /\ LevelFollowsLog
    /\ [][(attempts' # attempts) => LevelFollowsLog']_vars
    /\ [][(LevelFollowsLog /\ ~LevelFollowsLog') => lastOp'.name = "set"]_vars

\* after a first outcome the level was set elsewhere, and a manual enhance
\* from there made currentLevel follow the log again
C26_Witness ==
    /\ lastOp.name = "enhance"
    /\ Len(attempts) = 2
    /\ lastOp.levels # <<>>
    /\ lastOp.levels[1] # attempts[1].newLevel
    /\ LevelFollowsLog

\* the level r clamped to [1,15]
StatedClamp(r) == IF r < 1 THEN 1 ELSE IF r > 15 THEN 15 ELSE r

\* C27: set-level sets currentLevel to the requested level clamped to
\* [1,15] and leaves the log, the statistics, the target level and the
\* auto-enhance flag unchanged; it resolves no attempt.
C27_SetLevelFrame ==
    [][(lastOp'.name = "set") =>
         /\ currentLevel' = StatedClamp(lastOp'.max)
         /\ lastOp'.levels = <<>>
         /\ attempts' = attempts
         /\ stats' = stats
         /\ targetLevel' = targetLevel
         /\ isAutoEnhancing' = isAutoEnhancing]_vars

\* level 14 was set while the log held outcomes of other levels
C27_Witness ==
    /\ lastOp.name = "set"
    /\ lastOp.max = 14
    /\ currentLevel = 14
    /\ attempts # <<>>
    /\ attempts[Len(attempts)].newLevel # 14

\* C28: within an auto-enhance run the level a tick reads (the level
\* reference) is the session's currentLevel at that tick, so every
\* timer-driven attempt is resolved from the level the previous attempt
\* produced, under every interleaving of ticks with the deferred update of
\* the reference.
C28_TickReadsCurrentLevel ==
    [][(lastOp'.name = "tick" /\ lastOp'.levels # <<>>) =>
         lastOp'.levels[1] = currentLevel]_vars

\* C29: at most one timer exists and a timer is scheduled if and only if the
\* auto-enhancing flag is true: a start finds no timer scheduled, and every
\* step that clears the timer (stop, termination in a tick, reset) leaves the
\* flag false.
C29_OneTimerIffFlag ==
    /\ [](/\ Len(autoEnhanceInterval) <= 1
          /\ (autoEnhanceInterval # <<>>) <=> isAutoEnhancing)
    /\ [][(lastOp'.name = "start") =>
            /\ autoEnhanceInterval = <<>>
            /\ Len(autoEnhanceInterval') = 1]_vars
    /\ [][(autoEnhanceInterval # <<>> /\ autoEnhanceInterval' = <<>>) =>
            /\ ~isAutoEnhancing'
            /\ lastOp'.name \in {"stop", "tick", "reset"}]_vars

\* the run ended by itself: a tick found the level at the target, cleared
\* the timer and turned the flag off
C29_Witness ==
    /\ lastOp.name = "tick"
    /\ lastOp.levels = <<>>
    /\ attempts # <<>>
    /\ autoEnhanceInterval = <<>>
    /\ ~isAutoEnhancing

(***************************************************************************)
(* The floors of the rule table, checked under SpecEnhance.                *)
(***************************************************************************)
\* C30: no attempt lowers a level across the floors 6 and 9: from a level
\* >= 6 the new level is >= 6 and from a level >= 9 it is >= 9; so
\* level + failurePenalty >= 1 at every level of 1..15 and the floor at 1
\* never changes a result.
C30_FloorsSixAndNine ==
    (call.done /\ call.level \in 1..15) =>
        /\ (call.level >= 6) => call.result.newLevel >= 6
        /\ (call.level >= 9) => call.result.newLevel >= 9
        /\ call.level + ENHANCEMENT_RULES[call.level].failurePenalty >= 1
        /\ ~call.result.success =>
              call.result.newLevel
                 = call.level + ENHANCEMENT_RULES[call.level].failurePenalty

\* an attempt at level 11 failed and fell to the floor 9
C30_Witness ==
    /\ call.done
    /\ call.level = 11
    /\ ~call.result.success
    /\ call.result.newLevel = 9

(***************************************************************************)
(* Progress through the deterministic levels, checked under SpecProgress.  *)
(***************************************************************************)
\* the level L the run started from: the log was empty then, and the first
\* outcome at a level <= 6 is a success to L + 1
StartLevel == IF attempts = <<>> THEN currentLevel ELSE attempts[1].newLevel - 1

\* every outcome in the log is a success without damage
AllSuccessNoDamage ==
    \A i \in 1..Len(attempts) : attempts[i].success /\ ~attempts[i].damageOccurred

\* a batch run asked for at least T - L attempts has returned
BatchEnded == lastOp.name = "run" /\ lastOp.max >= targetLevel - StartLevel

\* the auto-enhance run has ended by itself: a tick cleared the timer
AutoEnded == lastOp.name = "tick" /\ lastOp.levels = <<>> /\ ~isAutoEnhancing

\* C31: from a level L <= 6 with a target T, L < T <= 7, an auto-enhance run
\* and a batch run with maxAttempts >= T - L both end with currentLevel = T
\* after exactly T - L appended outcomes, all successes without damage: no
\* run ever appends more than T - L outcomes, and when it has ended the level
\* is T and the log holds T - L outcomes.
C31_DeterministicProgress ==
    /\ AllSuccessNoDamage
    /\ Len(attempts) <= targetLevel - StartLevel
    /\ (BatchEnded \/ AutoEnded) =>
          /\ currentLevel = targetLevel
          /\ Len(attempts) = targetLevel - StartLevel

\* the batch half of C31 alone
BatchProgress ==
    BatchEnded =>
        /\ AllSuccessNoDamage
        /\ currentLevel = targetLevel
        /\ Len(attempts) = targetLevel - StartLevel

\* what the auto-enhance run does ensure: when it has ended the level is the
\* target and every outcome was a success without damage
AutoReachesTarget ==
    AutoEnded => (currentLevel = targetLevel /\ AllSuccessNoDamage)

====
